---- MODULE Spec2Model ----
(***************************************************************************)
(* Stop-and-wait reliability layer and file-transfer protocol of the       *)
(* WebRTC demo client (src/client/src/App.jsx): two peers, each with one   *)
(* ReliabilityLayer and one delivery callback, joined by an unordered,     *)
(* lossy, duplicating data channel.                                        *)
(***************************************************************************)
EXTENDS Integers, Sequences, FiniteSets, Bags, TLC

(***************************************************************************)
(* Bounds of the model.                                                    *)
(***************************************************************************)
\* Frames the channel duplicates in one behaviour.
MaxDups == 1
\* Sends a session accepts in one behaviour (the length of its accepted log).
MaxSends == 2
\* How late a timeout fires, in half milliseconds.
TimerLateness == 1
\* sendFile invocations in one behaviour.
MaxTransfers == 1
\* Largest file, in bytes, of the round trips.
MaxFileSize == 5
\* Width of a sequence number: the source wraps at 2^32 (>>> 0), which the
\* model scales down so that the wrap-around is reached.  It is kept above
\* the number of sends of Spec and of one file of SpecTransfer, where no
\* sequence number is used twice; SpecCycle reaches the wrap-around.
SeqModulus == 3
\* Bytes per chunk: the source uses 16 * 1024; the model scales it down.
CHUNK_SIZE == 2
\* Sends the session of the other peer accepts when both peers send.
MaxBackSends == 1
\* Largest totalChunks, and largest chunk index, the delivery callback is
\* given when it is driven directly.
MaxChunks == 2
\* Payloads the delivery callback is given when it is driven directly.
MaxDeliveries == 4
\* Acknowledged sends past the capacity of the RTT history.
MaxEvictions == 2
\* The clock, in half milliseconds, of the behaviours that fill the RTT
\* history: they end before the first timeout is due.
MaxClock == 2

(***************************************************************************)
(* Values.                                                                 *)
(***************************************************************************)
Peers == {"A", "B"}
Other(p) == IF p = "A" THEN "B" ELSE "A"

\* A nullable JS value: null is <<>>, a value v is <<v>>.
None == <<>>
Some(v) == <<v>>

\* Files the user can pick (name, MIME type, bytes).
Files ==
  { [name |-> "f1", type |-> "x", bytes |-> <<255>>] }

\* Results of new Date().toLocaleTimeString() that sendMessage can see.
Times == {"10:00:01 AM"}

Max(a, b) == IF a >= b THEN a ELSE b
Min(a, b) == IF a <= b THEN a ELSE b

\* A quotient that is rounded down.
Floor(a, b) == a \div b

\* Math.ceil(a / b) for a >= 0, b > 0.
Ceil(a, b) == (a + b - 1) \div b

\* Math.round of a non-negative number given in halves.
MathRound(halves) == (halves + 1) \div 2

\* Decimal digits of a non-negative integer, as JSON.stringify prints it.
RECURSIVE Digits(_)
Digits(n) == IF n < 10 THEN 1 ELSE 1 + Digits(n \div 10)

(***************************************************************************)
(* Base64 (btoa / atob).  A base64 text is a sequence of sextets 0..63,    *)
(* with 64 for the padding character '='.                                  *)
(***************************************************************************)
Pad == 64

RECURSIVE btoa(_)
btoa(binary) ==
  IF Len(binary) = 0 THEN <<>>
  ELSE IF Len(binary) = 1 THEN
    << binary[1] \div 4, (binary[1] % 4) * 16, Pad, Pad >>
  ELSE IF Len(binary) = 2 THEN
    << binary[1] \div 4,
       (binary[1] % 4) * 16 + binary[2] \div 16,
       (binary[2] % 16) * 4,
       Pad >>
  ELSE
    << binary[1] \div 4,
       (binary[1] % 4) * 16 + binary[2] \div 16,
       (binary[2] % 16) * 4 + binary[3] \div 64,
       binary[3] % 64 >>
    \o btoa(SubSeq(binary, 4, Len(binary)))

RECURSIVE atob(_)
atob(base64) ==
  IF Len(base64) < 4 THEN <<>>
  ELSE
    LET c1 == base64[1]
        c2 == base64[2]
        c3 == base64[3]
        c4 == base64[4]
        b1 == << c1 * 4 + c2 \div 16 >>
        b2 == IF c3 = Pad THEN <<>> ELSE << (c2 % 16) * 16 + c3 \div 4 >>
        b3 == IF c3 = Pad \/ c4 = Pad THEN <<>> ELSE << (c3 % 4) * 64 + c4 >>
    IN  b1 \o b2 \o b3 \o atob(SubSeq(base64, 5, Len(base64)))

\* An encoder that keeps only the low seven bits of every byte.
arrayBufferToBase64Ascii(buffer) ==
  btoa([i \in 1..Len(buffer) |-> buffer[i] % 128])

\* String.fromCharCode of every byte, then btoa.
arrayBufferToBase64(buffer) ==
  btoa([i \in 1..Len(buffer) |-> buffer[i]])

\* atob, then charCodeAt of every character into a Uint8Array.
base64ToUint8Array(base64) ==
  LET binary == atob(base64)
  IN  [i \in 1..Len(binary) |-> binary[i] % 256]

(***************************************************************************)
(* Payloads and frames, and the length of their JSON text.                 *)
(***************************************************************************)
TextPayload(text) == [kind |-> "text", text |-> text]

FileMeta(file, totalChunks) ==
  [kind |-> "file-meta", name |-> file.name, size |-> Len(file.bytes),
   type |-> file.type, totalChunks |-> totalChunks]

FileChunk(index, b64) == [kind |-> "file-chunk", index |-> index, data |-> b64]

FileComplete == [kind |-> "file-complete"]

DataFrame(seq, payload) == [t |-> "data", seq |-> seq, payload |-> payload]

AckFrame(seq) == [t |-> "ack", seq |-> seq]

\* Length of JSON.stringify(payload).
PayloadLength(payload) ==
  CASE payload.kind = "text" ->
         \* {"kind":"text","text":".."}, the final newline escaped as \n
         25 + Len(payload.text) + 1
    [] payload.kind = "file-meta" ->
         \* {"kind":"file-meta","name":"..","size":N,"type":"..","totalChunks":N}
         63 + Len(payload.name) + Digits(payload.size) + Len(payload.type)
            + Digits(payload.totalChunks)
    [] payload.kind = "file-chunk" ->
         \* {"kind":"file-chunk","index":N,"data":".."}
         40 + Digits(payload.index) + Len(payload.data)
    [] OTHER ->
         \* {"kind":"file-complete"}
         24

\* Length of the serialized frame (serialized.length, raw.length).
FrameLength(frame) ==
  IF frame.t = "data"
    THEN 30 + Digits(frame.seq) + PayloadLength(frame.payload)
    ELSE 18 + Digits(frame.seq)

(***************************************************************************)
(* State.                                                                  *)
(***************************************************************************)
VARIABLES
  state,       \* state[p]: the ReliabilityLayer state object of peer p
  timers,      \* timers[p]: the timeouts of peer p that are pending
  readyState,  \* dc.readyState, "null" while there is no channel
  chan,        \* chan[p]: the frames in flight towards peer p (a bag)
  now,         \* performance.now(), in half milliseconds
  dups,        \* frames the channel has duplicated so far
  app,         \* app[p]: what the delivery callback of peer p has built
  procs,       \* procs[p]: the sendFile invocations of peer p
  accepted,    \* accepted[p]: the sends of peer p that returned true
  delivered,   \* delivered[p]: the frames handed to p's delivery callback
  last,        \* the handler that ran last, its result and its effects
  rooms,       \* the relay's Map from room id to the Set of its connections
  sockets,     \* sockets[ws]: the relay's end of connection ws
  joins,       \* joins[ws]: the rooms whose join by ws the relay accepted
  relayLast    \* the relay handler that ran last and what it sent

\* The variables of the two peers and of the signaling relay.
peerVars == << state, timers, readyState, chan, now, dups, app, procs,
               accepted, delivered, last >>

relayVars == << rooms, sockets, joins, relayLast >>

vars == << peerVars, relayVars >>

\* The peers whose user sends messages and files.
Senders == {"A"}

InitStats ==
  [sent |-> 0, received |-> 0, acks |-> 0, retransmits |-> 0, rttMs |-> 0,
   bytesSent |-> 0, bytesReceived |-> 0]

InitState ==
  [nextSeq |-> 0, awaitingAckSeq |-> None, inflightPayload |-> None,
   inflightTimestamp |-> 0, timer |-> None, stats |-> InitStats,
   rttHistory |-> <<>>]

timeoutMs == 600
\* timeoutMs in the unit of the clock.
TimeoutTicks == 2 * timeoutMs
rttHistoryMax == 40

InitApp ==
  [receivedText |-> "", recvFileInfo |-> None, recvChunks |-> <<>>,
   recvProgress |-> [receivedChunks |-> 0, totalChunks |-> 0],
   downloadUrl |-> None]

\* The connections the relay accepts in one behaviour, and the room ids
\* its clients name ("" is the empty string).
Conns == {"w1", "w2", "w3"}
RoomIds == {"r1", "r2"}

\* The relay before its first connection.
NoRelayCall == [op |-> "none", ws |-> "w1", msg |-> [json |-> "none"],
                sends |-> {}]

InitRelay ==
  /\ rooms = [r \in RoomIds |-> None]
  /\ sockets = [ws \in Conns |-> [status |-> "new", roomId |-> None]]
  /\ joins = [ws \in Conns |-> {}]
  /\ relayLast = NoRelayCall

\* What a step that runs no handler of the session leaves in last.
NoCall == [op |-> "none", peer |-> "A", ret |-> FALSE, threw |-> FALSE,
           arg |-> [t |-> "none"], out |-> <<>>]

Init ==
  /\ state = [p \in Peers |-> InitState]
  /\ timers = [p \in Peers |-> {}]
  /\ readyState = "null"
  /\ chan = [p \in Peers |-> EmptyBag]
  /\ now = 0
  /\ dups = 0
  /\ app = [p \in Peers |-> InitApp]
  /\ procs = [p \in Peers |-> <<>>]
  /\ accepted = [p \in Peers |-> <<>>]
  /\ delivered = [p \in Peers |-> <<>>]
  /\ last = NoCall
  /\ InitRelay

(***************************************************************************)
(* ReliabilityLayer.                                                       *)
(***************************************************************************)
\* update(): the snapshot handed to onStats.
Snapshot(s) ==
  [e |-> "stats", v |-> [stats |-> s.stats, rttHistory |-> s.rttHistory]]

\* dc.send(frame), seen from outside.
Written(frame) == [e |-> "frame", v |-> frame]

\* onDeliver(payload), seen from outside.
Delivered(payload) == [e |-> "deliver", v |-> payload]

\* The timeout armed by send, and the one its callback arms.
RetransmitTimer(seq, payload, t) ==
  [kind |-> "retransmit", seq |-> seq, payload |-> payload,
   due |-> t + TimeoutTicks]

NoopTimer(seq, t) == [kind |-> "noop", seq |-> seq, due |-> t + TimeoutTicks]

\* The clock when the timeout t runs.
FiredAt(t) == Max(now, t.due + TimerLateness)

\* A clearTimeout that cancels nothing.
clearTimeoutNever(pending, handle) == pending

\* clearTimeout(handle) on the pending timeouts.
clearTimeout(pending, handle) ==
  IF handle = None THEN pending ELSE pending \ {handle[1]}

\* A send that forgets the message in flight.
CanSendWhileBusy(s, dcState) == dcState = "open"

\* The two early returns of send.
CanSend(s, dcState) ==
  /\ dcState = "open"
  /\ s.awaitingAckSeq = None

\* A sequence number that is never brought back into its width.
NextSeqUnwrapped(seq) == seq + 1

\* (state.nextSeq + 1) >>> 0
NextSeqAfter(seq) == (seq + 1) % SeqModulus

\* The session after a send that passed the early returns, at time t.
AfterSend(s, payload, t) ==
  LET seq == s.nextSeq
      serialized == DataFrame(seq, payload)
  IN  [s EXCEPT
        !.awaitingAckSeq = Some(seq),
        !.inflightPayload = Some(payload),
        !.inflightTimestamp = t,
        !.stats = [@ EXCEPT !.sent = @ + 1,
                            !.bytesSent = @ + FrameLength(serialized)],
        !.timer = Some(RetransmitTimer(seq, payload, t)),
        !.nextSeq = NextSeqAfter(seq)]

\* send(dc, payload) of peer p; file is the file a sendFile sends it for.
send(p, payload, file) ==
  LET s == state[p]
      seq == s.nextSeq
      serialized == DataFrame(seq, payload)
      s1 == AfterSend(s, payload, now)
  IN  IF CanSend(s, readyState)
        THEN /\ state' = [state EXCEPT ![p] = s1]
             /\ timers' = [timers EXCEPT ![p] = @ \cup {s1.timer[1]}]
             /\ chan' = [chan EXCEPT
                           ![Other(p)] = @ (+) SetToBag({serialized})]
             /\ accepted' = [accepted EXCEPT
                               ![p] = Append(@, [seq |-> seq,
                                                 payload |-> payload,
                                                 file |-> file])]
             /\ last' = [op |-> "send", peer |-> p, ret |-> TRUE,
                         threw |-> FALSE, arg |-> payload,
                         out |-> << Written(serialized), Snapshot(s1) >>]
        ELSE /\ UNCHANGED << state, timers, chan, accepted >>
             /\ last' = [op |-> "send", peer |-> p, ret |-> FALSE,
                         threw |-> FALSE, arg |-> payload, out |-> <<>>]

\* Whether the callback of the timeout t still retransmits.
StillAwaiting(s, t) ==
  /\ t.kind = "retransmit"
  /\ s.awaitingAckSeq = Some(t.seq)

\* The timeout the retransmit callback leaves in state.timer.
RearmedTimer(t) == NoopTimer(t.seq, FiredAt(t))

\* A retransmit callback that does not count the frame it writes as sent.
AfterRetransmitUncounted(s, t) ==
  [s EXCEPT !.stats = [@ EXCEPT !.retransmits = @ + 1],
            !.timer = Some(RearmedTimer(t))]

\* A retransmit callback that gives the message up.
AfterRetransmitGivingUp(s, t) ==
  [s EXCEPT !.awaitingAckSeq = None, !.inflightPayload = None,
            !.timer = Some(RearmedTimer(t))]

\* The session after the retransmit callback of t has run to its end.
AfterRetransmit(s, t) ==
  LET retry == DataFrame(t.seq, t.payload)
  IN  [s EXCEPT
        !.stats = [@ EXCEPT !.sent = @ + 1,
                            !.retransmits = @ + 1,
                            !.bytesSent = @ + FrameLength(retry)],
        !.timer = Some(RearmedTimer(t))]

\* Expiry of the pending timeout t of peer p.
TimerFired(p, t) ==
  LET s == state[p]
      pending == timers[p] \ {t}
      retry == DataFrame(t.seq, t.payload)
      s1 == AfterRetransmit(s, t)
      call == [op |-> "timer", peer |-> p, ret |-> FALSE, threw |-> FALSE,
               arg |-> t, out |-> <<>>]
  IN  /\ t \in timers[p]
      /\ now' = FiredAt(t)
      /\ UNCHANGED accepted
      /\ IF ~StillAwaiting(s, t)
           THEN /\ timers' = [timers EXCEPT ![p] = pending]
                /\ UNCHANGED << state, chan >>
                /\ last' = call
         ELSE IF readyState # "open"
           \* dc.send throws InvalidStateError and the callback ends there.
           THEN /\ timers' = [timers EXCEPT ![p] = pending]
                /\ UNCHANGED << state, chan >>
                /\ last' = [call EXCEPT !.threw = TRUE]
         ELSE /\ state' = [state EXCEPT ![p] = s1]
              /\ timers' = [timers EXCEPT
                              ![p] = clearTimeout(pending, s.timer)
                                       \cup {s1.timer[1]}]
              /\ chan' = [chan EXCEPT ![Other(p)] = @ (+) SetToBag({retry})]
              /\ last' = [call EXCEPT
                            !.out = << Written(retry),
                                       Snapshot(s1) >>]

(***************************************************************************)
(* The delivery callback (the first argument of ReliabilityLayer).         *)
(***************************************************************************)
\* What a Blob makes of an array hole: the text "undefined".
Undefined == << 117, 110, 100, 101, 102, 105, 110, 101, 100 >>

\* new Array(n): n holes.
NewArray(n) == [i \in 1..n |-> None]

\* A write that appends to the array whatever the index.
ArrayPush(array, idx, value) == Append(array, Some(value))

\* array[idx] = value; an index past the end lengthens the array with holes.
ArraySet(array, idx, value) ==
  [i \in 1..Max(Len(array), idx + 1) |->
     IF i = idx + 1 THEN Some(value)
     ELSE IF i <= Len(array) THEN array[i] ELSE None]

\* array.filter(Boolean).length
FilledSlots(array) == Cardinality({i \in 1..Len(array) : array[i] # None})

\* The bytes of new Blob(parts).
RECURSIVE Blob(_)
Blob(parts) ==
  IF Len(parts) = 0 THEN <<>>
  ELSE (IF parts[1] = None THEN Undefined ELSE parts[1][1]) \o Blob(Tail(parts))

\* A file-meta branch that resizes the buffer and keeps what it holds.
OnFileMetaKeeping(a, payload) ==
  [a EXCEPT
    !.recvFileInfo = Some([name |-> payload.name, size |-> payload.size,
                           type |-> payload.type]),
    !.recvChunks = [i \in 1..payload.totalChunks |->
                      IF i <= Len(a.recvChunks) THEN a.recvChunks[i]
                      ELSE None],
    !.recvProgress = [receivedChunks |-> 0,
                      totalChunks |-> payload.totalChunks]]

OnFileMeta(a, payload) ==
  [a EXCEPT
    !.recvFileInfo = Some([name |-> payload.name, size |-> payload.size,
                           type |-> payload.type]),
    !.recvChunks = NewArray(payload.totalChunks),
    !.recvProgress = [receivedChunks |-> 0,
                      totalChunks |-> payload.totalChunks]]

OnFileChunk(a, payload) ==
  IF Len(a.recvChunks) = 0 THEN a
  ELSE LET chunks == ArraySet(a.recvChunks, payload.index,
                              base64ToUint8Array(payload.data))
       IN  [a EXCEPT !.recvChunks = chunks,
                     !.recvProgress.receivedChunks = FilledSlots(chunks)]

OnFileComplete(a) ==
  IF Len(a.recvChunks) = 0 THEN a
  ELSE [a EXCEPT !.downloadUrl = Some(Blob(a.recvChunks))]

\* The callback's effect on what the receiving application holds.
onDeliver(a, payload) ==
  CASE payload.kind = "text" ->
         [a EXCEPT !.receivedText = @ \o payload.text]
    [] payload.kind = "file-meta" -> OnFileMeta(a, payload)
    [] payload.kind = "file-chunk" -> OnFileChunk(a, payload)
    [] payload.kind = "file-complete" -> OnFileComplete(a)
    [] OTHER -> a

\* The payloads a peer's sessions can hand to the callback, in any order
\* and any number of times, once frames of several transfers are
\* duplicated and reordered.
ChunkSamples == { << 65 >>, << 255, 0 >> }

CallbackPayloads ==
  { [kind |-> "file-meta", name |-> "f", size |-> n * CHUNK_SIZE,
     type |-> "t", totalChunks |-> n] : n \in 0..MaxChunks }
  \cup { FileChunk(i, arrayBufferToBase64(b)) :
           i \in 0..MaxChunks, b \in ChunkSamples }
  \cup { FileComplete, TextPayload("Hello\n") }

\* The delivery callback of peer p is invoked with a payload.
CallbackGiven(p) ==
  /\ p \notin Senders
  /\ Len(delivered[p]) < MaxDeliveries
  /\ \E payload \in CallbackPayloads :
       /\ app' = [app EXCEPT ![p] = onDeliver(@, payload)]
       /\ delivered' = [delivered EXCEPT
                          ![p] = Append(@, [seq |-> 0, payload |-> payload])]
       /\ last' = [op |-> "onDeliver", peer |-> p, ret |-> FALSE,
                   threw |-> FALSE, arg |-> payload, out |-> <<>>]
  /\ UNCHANGED << state, timers, readyState, chan, now, dups, procs,
                  accepted >>
  /\ UNCHANGED relayVars

(***************************************************************************)
(* ReliabilityLayer.handleIncoming.                                        *)
(***************************************************************************)
\* An ack branch that takes any ack while a message is in flight.
AckMatchesAny(s, msg) == s.awaitingAckSeq # None

\* The condition of the ack branch.
AckMatches(s, msg) == s.awaitingAckSeq = Some(msg.seq)

\* An RTT history that is never trimmed.
PushRttUnbounded(history, rtt) == Append(history, rtt)

\* rttHistory.push(rtt), then shift() when longer than rttHistoryMax.
PushRtt(history, rtt) ==
  LET pushed == Append(history, rtt)
  IN  IF Len(pushed) > rttHistoryMax THEN Tail(pushed) ELSE pushed

\* The session after a matching ack, at time t.
AfterAck(s, t) ==
  LET rtt == MathRound(t - s.inflightTimestamp)
  IN  [s EXCEPT
        !.stats = [@ EXCEPT !.acks = @ + 1, !.rttMs = rtt],
        !.rttHistory = PushRtt(@, rtt),
        !.awaitingAckSeq = None,
        !.inflightPayload = None]

\* The session after a data frame of raw.length = n.
AfterData(s, n) ==
  [s EXCEPT !.stats = [@ EXCEPT !.received = @ + 1,
                                !.bytesReceived = @ + n]]

\* A data branch that acknowledges and delivers the first frame only.
DataEffectsOnce(s1, msg) ==
  IF s1.stats.received > 1 THEN << Snapshot(s1) >>
  ELSE << Snapshot(s1), Written(AckFrame(msg.seq)), Delivered(msg.payload) >>

\* A data branch that hands the payload over before it acknowledges it.
DataEffectsDeliverFirst(s1, msg) ==
  << Snapshot(s1), Delivered(msg.payload), Written(AckFrame(msg.seq)) >>

\* What the data branch does, in the order it does it.
DataEffects(s1, msg) ==
  << Snapshot(s1), Written(AckFrame(msg.seq)), Delivered(msg.payload) >>

\* Texts a channel can carry that are no frame of this protocol; t names
\* what the text is: text that is not JSON, the JSON values null and 7, and
\* the object {"t":"ping"}.
ForeignTexts ==
  { [t |-> "not-json"], [t |-> "null"], [t |-> "number"], [t |-> "ping"] }

\* A decoder that takes every text for the JSON value null.
JSONparseNull(raw) == Some([t |-> "null"])

\* JSON.parse(raw): None when it throws SyntaxError.  A frame stands for
\* the text JSON.stringify made of it, which parses back to the frame.
JSONparse(raw) == IF raw.t = "not-json" THEN None ELSE Some(raw)

\* Reading msg.t raises TypeError when msg is null.
ReadOfTThrows(msg) == msg.t = "null"

\* handleIncoming(dc, raw) of peer p; inflight is chan without raw.
handleIncoming(p, raw, inflight) ==
  LET s == state[p]
      call == [op |-> "handleIncoming", peer |-> p, ret |-> FALSE,
               threw |-> FALSE, arg |-> raw, out |-> <<>>]
      parsed == JSONparse(raw)
      msg == parsed[1]
  IN  /\ UNCHANGED accepted
      /\ IF parsed = None
           \* catch { return }
           THEN /\ chan' = inflight
                /\ UNCHANGED << state, timers, app, delivered >>
                /\ last' = call
         ELSE IF ReadOfTThrows(msg)
           THEN /\ chan' = inflight
                /\ UNCHANGED << state, timers, app, delivered >>
                /\ last' = [call EXCEPT !.threw = TRUE]
         ELSE IF msg.t = "data"
           THEN LET s1 == AfterData(s, FrameLength(msg))
                    out == DataEffects(s1, msg)
                    acks == SelectSeq(out, LAMBDA ev : ev.e = "frame")
                    calls == SelectSeq(out, LAMBDA ev : ev.e = "deliver")
                IN  /\ state' = [state EXCEPT ![p] = s1]
                    /\ chan' = [inflight EXCEPT
                                  ![Other(p)] = @ (+) SetToBag(
                                     {acks[i].v : i \in 1..Len(acks)})]
                    /\ app' = [app EXCEPT
                                 ![p] = IF Len(calls) = 0 THEN @
                                        ELSE onDeliver(@, calls[1].v)]
                    /\ delivered' = [delivered EXCEPT
                                       ![p] = @ \o [i \in 1..Len(calls) |->
                                                [seq |-> msg.seq,
                                                 payload |-> calls[i].v]]]
                    /\ UNCHANGED timers
                    /\ last' = [call EXCEPT !.out = out]
         ELSE IF msg.t = "ack" /\ AckMatches(s, msg)
           THEN LET s1 == AfterAck(s, now)
                IN  /\ state' = [state EXCEPT ![p] = s1]
                    /\ timers' = [timers EXCEPT
                                    ![p] = clearTimeout(@, s.timer)]
                    /\ chan' = inflight
                    /\ UNCHANGED << app, delivered >>
                    /\ last' = [call EXCEPT !.out = << Snapshot(s1) >>]
         ELSE /\ chan' = inflight
              /\ UNCHANGED << state, timers, app, delivered >>
              /\ last' = call

(***************************************************************************)
(* The sending application: sendMessage, sendFile and waitUntilSent.       *)
(***************************************************************************)
\* file.slice(start, end) of a byte sequence.
Slice(bytes, start, end) == SubSeq(bytes, start + 1, end)

TotalChunks(file) == Ceil(Len(file.bytes), CHUNK_SIZE)

\* The bytes of chunk i of a file.
ChunkBytes(file, i) ==
  LET start == i * CHUNK_SIZE
      end == Min(start + CHUNK_SIZE, Len(file.bytes))
  IN  Slice(file.bytes, start, end)

\* The payload a sendFile invocation offers to send at its current place.
Offered(proc) ==
  CASE proc.pc = "meta" -> FileMeta(proc.file, TotalChunks(proc.file))
    [] proc.pc = "chunk" ->
         FileChunk(proc.i, arrayBufferToBase64(ChunkBytes(proc.file, proc.i)))
    [] OTHER -> FileComplete

\* Where a sendFile invocation goes once its payload is accepted.
Advance(proc) ==
  CASE proc.pc = "meta" ->
         [proc EXCEPT !.pc = IF TotalChunks(proc.file) > 0 THEN "chunk"
                             ELSE "complete"]
    [] proc.pc = "chunk" ->
         IF proc.i + 1 < TotalChunks(proc.file)
           THEN [proc EXCEPT !.i = @ + 1]
           ELSE [proc EXCEPT !.pc = "complete"]
    [] OTHER -> [proc EXCEPT !.pc = "done"]

\* The Send Message button, while fewer than limit sends were accepted.
SendMessageWithin(p, limit) ==
  /\ p \in Senders
  /\ readyState = "open"
  /\ Len(accepted[p]) < limit
  /\ \E time \in Times :
       send(p, TextPayload("Hello " \o time \o "\n"), None)
  /\ UNCHANGED << readyState, now, dups, app, procs, delivered >>
  /\ UNCHANGED relayVars

SendMessage(p) == SendMessageWithin(p, MaxSends)

\* The Send Message button over one whole cycle of sequence numbers.
SendMessageInCycle(p) == SendMessageWithin(p, SeqModulus)

\* The Send Message button of the other peer.
SendMessageBack(p) ==
  /\ p \notin Senders
  /\ readyState = "open"
  /\ Len(accepted[p]) < MaxBackSends
  /\ \E time \in Times :
       send(p, TextPayload("Hello " \o time \o "\n"), None)
  /\ UNCHANGED << readyState, now, dups, app, procs, delivered >>
  /\ UNCHANGED relayVars

\* The Send Message button for as long as it takes to overfill rttHistory.
SendMessageOften(p) == SendMessageWithin(p, rttHistoryMax + MaxEvictions)

\* The Send button of the file panel: sendFile starts for the chosen file.
StartSendFile(p, file) ==
  /\ p \in Senders
  /\ readyState = "open"
  /\ Len(procs[p]) < MaxTransfers
  /\ procs' = [procs EXCEPT
                 ![p] = Append(@, [file |-> file, pc |-> "meta", i |-> 0])]
  /\ last' = NoCall
  /\ UNCHANGED << state, timers, readyState, chan, now, dups, app,
                  accepted, delivered >>
  /\ UNCHANGED relayVars

\* The first sendFile of peer p.
StartFirstSendFile(p, file) ==
  /\ procs[p] = <<>>
  /\ StartSendFile(p, file)

\* One tick of waitUntilSent in sendFile invocation k of peer p.
SendFileTick(p, k) ==
  /\ k \in 1..Len(procs[p])
  /\ procs[p][k].pc # "done"
  /\ send(p, Offered(procs[p][k]), Some(procs[p][k].file))
  /\ procs' = IF last'.ret
                THEN [procs EXCEPT ![p][k] = Advance(@)]
                ELSE procs
  /\ UNCHANGED << readyState, now, dups, app, delivered >>
  /\ UNCHANGED relayVars

\* The retransmit timeout, or the one its callback armed, expires.
Timeout(p) ==
  /\ \E t \in timers[p] : TimerFired(p, t)
  /\ UNCHANGED << readyState, dups, app, procs, delivered >>
  /\ UNCHANGED relayVars

\* Half a millisecond passes and no timeout is due yet.
TimePasses ==
  /\ now < MaxClock
  /\ \A p \in Peers : \A t \in timers[p] : now + 1 < t.due
  /\ now' = now + 1
  /\ last' = NoCall
  /\ UNCHANGED << state, timers, readyState, chan, dups, app, procs,
                  accepted, delivered >>
  /\ UNCHANGED relayVars

(***************************************************************************)
(* The data channel: unordered, lossy, duplicating.                        *)
(***************************************************************************)
Take(bag, frame) == bag (-) SetToBag({frame})

\* dc.onmessage: a frame arrives at peer p.
Receive(p) ==
  /\ readyState = "open"
  /\ \E f \in BagToSet(chan[p]) :
       handleIncoming(p, f, [chan EXCEPT ![p] = Take(@, f)])
  /\ UNCHANGED << readyState, now, dups, procs >>
  /\ UNCHANGED relayVars

\* The channel delivers a frame and keeps a copy of it in flight.
Duplicate(p) ==
  /\ readyState = "open"
  /\ dups < MaxDups
  /\ \E f \in BagToSet(chan[p]) : handleIncoming(p, f, chan)
  /\ dups' = dups + 1
  /\ UNCHANGED << readyState, now, procs >>
  /\ UNCHANGED relayVars

\* A text that is no frame arrives at peer p.
ReceiveForeign(p) ==
  /\ readyState = "open"
  /\ \E raw \in ForeignTexts : handleIncoming(p, raw, chan)
  /\ UNCHANGED << readyState, now, dups, procs >>
  /\ UNCHANGED relayVars

\* The channel loses a frame.
Lose(p) ==
  /\ \E f \in BagToSet(chan[p]) : chan' = [chan EXCEPT ![p] = Take(@, f)]
  /\ last' = NoCall
  /\ UNCHANGED << state, timers, readyState, now, dups, app, procs,
                  accepted, delivered >>
  /\ UNCHANGED relayVars

\* createOffer / ondatachannel make the channel, and then it opens.
ChannelOpens ==
  /\ readyState \in {"null", "connecting"}
  /\ readyState' = IF readyState = "null" THEN "connecting" ELSE "open"
  /\ last' = NoCall
  /\ UNCHANGED << state, timers, chan, now, dups, app, procs, accepted,
                  delivered >>
  /\ UNCHANGED relayVars

\* The channel closes; what was in flight is gone.
ChannelCloses ==
  /\ readyState = "open"
  /\ readyState' = "closed"
  /\ chan' = [p \in Peers |-> EmptyBag]
  /\ last' = NoCall
  /\ UNCHANGED << state, timers, now, dups, app, procs, accepted, delivered >>
  /\ UNCHANGED relayVars

(***************************************************************************)
(* The signaling relay (src/server/index.js).  A Map entry that is absent  *)
(* is None, one that is present is Some of the Set of its connections.     *)
(***************************************************************************)
\* What a client can write to its connection: text that is not JSON, the
\* JSON value null, and objects with or without a type and a roomId.
RelayTypes == {"join", "offer", "answer", "candidate", "leave"}

RelayInputs ==
  { [json |-> "invalid"], [json |-> "null"] }
  \cup { [json |-> "object", type |-> Some(type), roomId |-> roomId] :
           type \in RelayTypes,
           roomId \in {None, Some("")} \cup { Some(r) : r \in RoomIds } }
  \cup { [json |-> "object", type |-> None, roomId |-> Some(r)] :
           r \in RoomIds }

\* const { type } = msg || {}
TypeOf(msg) == IF msg.json = "object" THEN msg.type ELSE None

\* !roomId
NoRoomId(msg) == msg.roomId = None \/ msg.roomId = Some("")

\* client.readyState of the relay's end of a connection (1 is OPEN).
ReadyStateOf(socket) == IF socket.status = "open" THEN 1 ELSE 3

\* getOrCreateRoom(roomId), as the Map it leaves.
getOrCreateRoom(map, roomId) ==
  IF map[roomId] = None THEN [map EXCEPT ![roomId] = Some({})] ELSE map

\* A relay loop that also writes to the sender.
RecipientsWithEcho(room, ws) ==
  { client \in room : ReadyStateOf(sockets[client]) = 1 }

\* The clients the relay loop writes to.
Recipients(room, ws) ==
  { client \in room : client # ws /\ ReadyStateOf(sockets[client]) = 1 }

\* wss.on('connection')
Connection(ws) ==
  /\ sockets[ws].status = "new"
  /\ sockets' = [sockets EXCEPT ![ws] = [status |-> "open", roomId |-> None]]
  /\ relayLast' = [op |-> "connection", ws |-> ws, msg |-> [json |-> "none"],
                   sends |-> {}]
  /\ UNCHANGED << rooms, joins >>
  /\ UNCHANGED peerVars

\* The join branch of ws.on('message').
OnJoin(ws, msg, call) ==
  IF NoRoomId(msg)
    THEN /\ relayLast' = call
         /\ UNCHANGED << rooms, sockets, joins >>
    ELSE LET roomId == msg.roomId[1]
             created == getOrCreateRoom(rooms, roomId)
         IN  /\ rooms' = [created EXCEPT ![roomId] = Some(@[1] \cup {ws})]
             /\ sockets' = [sockets EXCEPT ![ws].roomId = Some(roomId)]
             /\ joins' = [joins EXCEPT ![ws] = @ \cup {roomId}]
             /\ relayLast' =
                  [call EXCEPT
                     !.sends = { [to |-> ws,
                                  msg |-> [json |-> "object",
                                           type |-> Some("joined"),
                                           roomId |-> msg.roomId]] }]

\* The offer / answer / candidate branch of ws.on('message').
OnSignal(ws, msg, call) ==
  /\ UNCHANGED << rooms, sockets, joins >>
  /\ IF NoRoomId(msg) THEN relayLast' = call
     ELSE IF rooms[msg.roomId[1]] = None THEN relayLast' = call
     ELSE relayLast' =
            [call EXCEPT
               !.sends = { [to |-> client, msg |-> msg] :
                             client \in Recipients(rooms[msg.roomId[1]][1],
                                                   ws) }]

\* ws.on('message') of the open connection ws.
OnMessage(ws, msg) ==
  LET call == [op |-> "message", ws |-> ws, msg |-> msg, sends |-> {}]
      type == TypeOf(msg)
  IN  /\ sockets[ws].status = "open"
      /\ IF msg.json = "invalid"
           THEN /\ relayLast' = call
                /\ UNCHANGED << rooms, sockets, joins >>
         ELSE IF type = Some("join") THEN OnJoin(ws, msg, call)
         ELSE IF type \in {Some("offer"), Some("answer"), Some("candidate")}
           THEN OnSignal(ws, msg, call)
         ELSE /\ relayLast' = call
              /\ UNCHANGED << rooms, sockets, joins >>
      /\ UNCHANGED peerVars

\* The connection ws goes down; its close event is still to come.
SocketCloses(ws) ==
  /\ sockets[ws].status = "open"
  /\ sockets' = [sockets EXCEPT ![ws].status = "closing"]
  /\ relayLast' = NoRelayCall
  /\ UNCHANGED << rooms, joins >>
  /\ UNCHANGED peerVars

\* ws.on('close')
OnClose(ws) ==
  LET roomId == sockets[ws].roomId
  IN  /\ sockets[ws].status = "closing"
      /\ sockets' = [sockets EXCEPT ![ws].status = "closed"]
      /\ relayLast' = [op |-> "close", ws |-> ws, msg |-> [json |-> "none"],
                       sends |-> {}]
      /\ rooms' =
           IF roomId = None THEN rooms
           ELSE IF rooms[roomId[1]] = None THEN rooms
           ELSE LET room == rooms[roomId[1]][1] \ {ws}
                IN  IF Cardinality(room) = 0
                      THEN [rooms EXCEPT ![roomId[1]] = None]
                      ELSE [rooms EXCEPT ![roomId[1]] = Some(room)]
      /\ UNCHANGED joins
      /\ UNCHANGED peerVars

(***************************************************************************)
(* Specifications.                                                         *)
(***************************************************************************)
\* The relay under its clients' connections, messages and disconnects.
NextRelay ==
  \/ \E ws \in Conns : Connection(ws)
  \/ \E ws \in Conns, msg \in RelayInputs : OnMessage(ws, msg)
  \/ \E ws \in Conns : SocketCloses(ws)
  \/ \E ws \in Conns : OnClose(ws)

SpecRelay == Init /\ [][NextRelay]_vars

\* The sessions under sendMessage.
Next ==
  \/ ChannelOpens
  \/ ChannelCloses
  \/ \E p \in Peers : SendMessage(p)
  \/ \E p \in Peers : Timeout(p)
  \/ \E p \in Peers : Receive(p)
  \/ \E p \in Peers : Duplicate(p)

Spec == Init /\ [][Next]_vars

\* The sessions under sendMessage for one whole cycle of sequence numbers,
\* over a channel that reorders and loses frames.
NextCycle ==
  \/ ChannelOpens
  \/ ChannelCloses
  \/ \E p \in Peers : SendMessageInCycle(p)
  \/ \E p \in Peers : Timeout(p)
  \/ \E p \in Peers : Receive(p)

SpecCycle == Init /\ [][NextCycle]_vars

\* The sessions under more acknowledged sends than rttHistory holds.
NextRtt ==
  \/ ChannelOpens
  \/ \E p \in Peers : SendMessageOften(p)
  \/ TimePasses
  \/ \E p \in Peers : Receive(p)

SpecRtt == Init /\ [][NextRtt]_vars

\* The sessions under sendMessage over a channel that also carries texts
\* that are no frames.
NextForeign ==
  \/ ChannelOpens
  \/ \E p \in Peers : SendMessage(p)
  \/ \E p \in Peers : Timeout(p)
  \/ \E p \in Peers : Receive(p)
  \/ \E p \in Peers : ReceiveForeign(p)

SpecForeign == Init /\ [][NextForeign]_vars

\* The sessions when both peers send messages.
NextDuplex ==
  \/ ChannelOpens
  \/ \E p \in Peers : SendMessage(p)
  \/ \E p \in Peers : SendMessageBack(p)
  \/ \E p \in Peers : Timeout(p)
  \/ \E p \in Peers : Receive(p)

SpecDuplex == Init /\ [][NextDuplex]_vars

\* The sessions under sendFile.
NextTransfer ==
  \/ ChannelOpens
  \/ ChannelCloses
  \/ \E p \in Peers, file \in Files : StartSendFile(p, file)
  \/ \E p \in Peers : \E k \in 1..Len(procs[p]) : SendFileTick(p, k)
  \/ \E p \in Peers : Timeout(p)
  \/ \E p \in Peers : Receive(p)
  \/ \E p \in Peers : Duplicate(p)

SpecTransfer == Init /\ [][NextTransfer]_vars

\* The sessions under sendMessage over a channel that stays open and is
\* fair-lossy: timeouts expire, and a frame cannot be in flight for ever
\* without one being delivered.
NextLive ==
  \/ ChannelOpens
  \/ \E p \in Peers : SendMessage(p)
  \/ \E p \in Peers : Timeout(p)
  \/ \E p \in Peers : Receive(p)
  \/ \E p \in Peers : Lose(p)

Fairness ==
  /\ WF_vars(ChannelOpens)
  /\ \A p \in Peers : WF_vars(Timeout(p))
  /\ \A p \in Peers : SF_vars(Receive(p))

SpecLive == Init /\ [][NextLive]_vars /\ Fairness

\* The file-transfer protocol alone: one sendFile whose payloads reach the
\* peer's delivery callback in order, each exactly once.
ByteSamples == {0, 65, 128, 255}

RoundTripFiles ==
  { [name |-> "f", type |-> "t", bytes |-> b] :
      b \in { << x >> : x \in 0..255 }
              \cup UNION { [1..n -> ByteSamples] : n \in 1..MaxFileSize } }

InitRoundTrip ==
  /\ state = [p \in Peers |-> InitState]
  /\ timers = [p \in Peers |-> {}]
  /\ readyState = "open"
  /\ chan = [p \in Peers |-> EmptyBag]
  /\ now = 0
  /\ dups = 0
  /\ app = [p \in Peers |-> InitApp]
  /\ \E file \in RoundTripFiles :
       procs = [p \in Peers |->
                  IF p = "A" THEN << [file |-> file, pc |-> "meta", i |-> 0] >>
                  ELSE <<>>]
  /\ accepted = [p \in Peers |-> <<>>]
  /\ delivered = [p \in Peers |-> <<>>]
  /\ last = NoCall
  /\ InitRelay

\* The next payload of A's sendFile is processed by B's delivery callback.
RoundTripStep ==
  /\ procs["A"][1].pc # "done"
  /\ app' = [app EXCEPT !["B"] = onDeliver(@, Offered(procs["A"][1]))]
  /\ procs' = [procs EXCEPT !["A"][1] = Advance(@)]
  /\ UNCHANGED << state, timers, readyState, chan, now, dups, accepted,
                  delivered, last >>
  /\ UNCHANGED relayVars

SpecRoundTrip == InitRoundTrip /\ [][RoundTripStep]_vars

\* The sessions when the user sends messages while a file is being sent,
\* every frame arriving before its timeout.
NextMixed ==
  \/ ChannelOpens
  \/ \E p \in Peers, file \in Files : StartSendFile(p, file)
  \/ \E p \in Peers : \E k \in 1..Len(procs[p]) : SendFileTick(p, k)
  \/ \E p \in Peers : SendMessage(p)
  \/ \E p \in Peers : Receive(p)
  \/ \E p \in Peers : Duplicate(p)

SpecMixed == Init /\ [][NextMixed]_vars

\* The delivery callback alone, under every short sequence of payloads.
NextCallback == \E p \in Peers : CallbackGiven(p)

SpecCallback == Init /\ [][NextCallback]_vars

\* One sendFile, of a file of any size from the empty file on, over a
\* channel that delivers every frame once.
SendFiles == RoundTripFiles \cup { [name |-> "f", type |-> "t", bytes |-> <<>>] }

NextSendFile ==
  \/ ChannelOpens
  \/ \E p \in Peers, file \in SendFiles : StartFirstSendFile(p, file)
  \/ \E p \in Peers : \E k \in 1..Len(procs[p]) : SendFileTick(p, k)
  \/ \E p \in Peers : Receive(p)

SpecSendFile == Init /\ [][NextSendFile]_vars

(***************************************************************************)
(* Properties.                                                             *)
(***************************************************************************)
Awaiting(p) == state[p].awaitingAckSeq # None

\* The log with every run of entries of one sequence number cut to its first.
RECURSIVE Collapse(_)
Collapse(log) ==
  IF Len(log) <= 1 THEN log
  ELSE LET rest == Collapse(Tail(log))
       IN  IF log[1].seq = rest[1].seq THEN << log[1] >> \o Tail(rest)
           ELSE << log[1] >> \o rest

IsPrefix(a, b) ==
  /\ Len(a) <= Len(b)
  /\ \A i \in 1..Len(a) : a[i] = b[i]

\* What send accepted, as the receiver would log it.
AcceptedLog(p) ==
  [i \in 1..Len(accepted[p]) |->
     [seq |-> accepted[p][i].seq, payload |-> accepted[p][i].payload]]

\* The last step was handler op of peer p.
Ran(op, p) == last.op = op /\ last.peer = p

\* C1: what B's delivery callback has been given is, once repeats of one
\* sequence number are collapsed, a prefix of what A's send accepted, and no
\* payload is delivered after one of a higher sequence number.
InOrderDelivery ==
  /\ IsPrefix(Collapse(delivered["B"]), AcceptedLog("A"))
  /\ \A i, j \in 1..Len(delivered["B"]) :
       i < j => delivered["B"][i].seq <= delivered["B"][j].seq

\* The payload accepted as the i-th send of A has reached B's callback.
Reached(i) ==
  /\ i <= Len(accepted["A"])
  /\ \E j \in 1..Len(delivered["B"]) :
       delivered["B"][j] = AcceptedLog("A")[i]

\* C2: over the fair-lossy channel every accepted payload is eventually
\* delivered to the peer's callback and the sender eventually becomes idle.
GuaranteedDelivery ==
  /\ \A i \in 1..MaxSends : (Len(accepted["A"]) >= i) ~> Reached(i)
  /\ Awaiting("A") ~> ~Awaiting("A")

\* The frames a step wrote to the transport.
FramesWritten(call) == SelectSeq(call.out, LAMBDA ev : ev.e = "frame")

\* A timeout that retransmits is pending at peer p.
RetransmitPending(p) ==
  \E t \in timers[p] :
    t.kind = "retransmit" /\ state[p].awaitingAckSeq = Some(t.seq)

\* C3: every expiry of the timeout while a message is awaiting its ack
\* writes one frame identical to the original, adds 1 to stats.retransmits
\* and stats.sent, and leaves a timeout pending.
RepeatingRetransmission ==
  [][\A p \in Peers :
       (/\ Awaiting(p)
        /\ readyState = "open"
        /\ last'.op = "timer" /\ last'.peer = p)
       => /\ FramesWritten(last') =
               << Written(DataFrame(state[p].awaitingAckSeq[1],
                                    state[p].inflightPayload[1])) >>
          /\ state'[p].stats.retransmits = state[p].stats.retransmits + 1
          /\ state'[p].stats.sent = state[p].stats.sent + 1
          /\ timers'[p] # {}]_vars

\* Peer p awaits an ack that can no longer come: nothing will retransmit,
\* and neither the frame nor an ack of it is in flight.
Abandoned(p) ==
  /\ Awaiting(p)
  /\ readyState = "open"
  /\ ~RetransmitPending(p)
  /\ \A f \in BagToSet(chan[Other(p)]) :
       ~(f.t = "data" /\ f.seq = state[p].awaitingAckSeq[1])
  /\ \A f \in BagToSet(chan[p]) :
       ~(f.t = "ack" /\ f.seq = state[p].awaitingAckSeq[1])

\* C4: no send is silently abandoned: the session is never left awaiting an
\* ack with no retransmission to come and no failure reported (the session
\* has no failure report).
NoSilentAbandonment == \A p \in Peers : ~Abandoned(p)

\* C5: a send made while a message is in flight, or while the channel is
\* absent or not open, returns false and changes nothing: the session, its
\* timeouts and the frames in flight are as before, and it emits nothing.  A
\* send that returns true was therefore made by an idle session.
WindowInvariant ==
  [][\A p \in Peers :
       (last'.op = "send" /\ last'.peer = p)
       => /\ (Awaiting(p) \/ readyState # "open")
             => /\ ~last'.ret
                /\ state'[p] = state[p]
                /\ timers'[p] = timers[p]
                /\ chan' = chan
                /\ last'.out = <<>>
          /\ last'.ret => ~Awaiting(p)]_vars

\* A send was refused because a message was in flight.
RefusedWhileBusy ==
  /\ last.op = "send"
  /\ ~last.ret
  /\ Awaiting(last.peer)
  /\ readyState = "open"

\* C6: the sequence numbers of the accepted sends are 0, 1, 2, ... modulo
\* the width, and nextSeq is the number of accepted sends modulo the width:
\* it moves by one with every accepted send and with nothing else.
SequenceMonotonicity ==
  \A p \in Peers :
    /\ \A i \in 1..Len(accepted[p]) :
         accepted[p][i].seq = (i - 1) % SeqModulus
    /\ state[p].nextSeq = Len(accepted[p]) % SeqModulus
    /\ (Ran("send", p) /\ last.ret)
         => FramesWritten(last) =
              << Written(DataFrame((Len(accepted[p]) - 1) % SeqModulus,
                                   last.arg)) >>

\* nextSeq has wrapped around to 0, after a retransmission and an ack.
SequenceWrapped ==
  /\ Len(accepted["A"]) = SeqModulus
  /\ state["A"].nextSeq = 0
  /\ state["A"].stats.retransmits > 0
  /\ state["A"].stats.acks > 0

\* C7: an ack whose seq is not the awaited one, or that reaches an idle
\* sender, changes nothing of the session and emits no snapshot.
AckMatching ==
  [][\A p \in Peers :
       (/\ last'.op = "handleIncoming" /\ last'.peer = p
        /\ last'.arg.t = "ack"
        /\ state[p].awaitingAckSeq # Some(last'.arg.seq))
       => /\ state'[p] = state[p]
          /\ timers'[p] = timers[p]
          /\ last'.out = <<>>]_vars

\* An ack of another sequence number reached a sender that awaits one.
ForeignAckIgnored ==
  /\ last.op = "handleIncoming"
  /\ last.arg.t = "ack"
  /\ Awaiting(last.peer)
  /\ state[last.peer].awaitingAckSeq # Some(last.arg.seq)

\* Copies of a frame in flight towards peer p.
InFlight(c, p, frame) == CopiesIn(frame, c[p])

\* The events of one kind among the effects of a step.
Events(call, kind) == SelectSeq(call.out, LAMBDA ev : ev.e = kind)

\* C10: every data frame handleIncoming decodes, a duplicate included, puts
\* exactly one ack of its seq on the channel, invokes the delivery callback
\* exactly once with its payload, and adds 1 to stats.received.
AtLeastOnceAck ==
  [][\A p \in Peers :
       (/\ last'.op = "handleIncoming" /\ last'.peer = p
        /\ last'.arg.t = "data")
       => /\ Events(last', "frame") = << Written(AckFrame(last'.arg.seq)) >>
          /\ Events(last', "deliver") = << Delivered(last'.arg.payload) >>
          /\ state'[p].stats.received = state[p].stats.received + 1
          /\ delivered'[p] =
               Append(delivered[p], [seq |-> last'.arg.seq,
                                     payload |-> last'.arg.payload])
          /\ \E taken \in {0, 1} :
               /\ InFlight(chan', p, last'.arg)
                    = InFlight(chan, p, last'.arg) - taken
               /\ InFlight(chan', Other(p), AckFrame(last'.arg.seq))
                    = InFlight(chan, Other(p), AckFrame(last'.arg.seq)) + 1]_vars

\* The same data frame was decoded twice, and acknowledged and delivered
\* both times.
DuplicateAcknowledged ==
  /\ last.op = "handleIncoming"
  /\ last.arg.t = "data"
  /\ LET log == delivered[last.peer]
         entry == [seq |-> last.arg.seq, payload |-> last.arg.payload]
     IN  /\ Len(log) = 2
         /\ log = << entry, entry >>
         /\ state[last.peer].stats.received = 2
         /\ Events(last, "frame") = << Written(AckFrame(last.arg.seq)) >>

\* The files whose FileComplete the peer of p has had accepted by send.
FilesCompleted(p) ==
  { accepted[Other(p)][i].file[1].bytes :
      i \in { k \in 1..Len(accepted[Other(p)]) :
                accepted[Other(p)][k].payload.kind = "file-complete" } }

\* C8: a file the receiver surfaces on FileComplete is, byte for byte, a
\* file the sender transferred, whatever the channel lost, duplicated or
\* reordered.
FileIntegrity ==
  \A p \in Peers :
    app[p].downloadUrl # None => app[p].downloadUrl[1] \in FilesCompleted(p)

\* The sendFile of the round trip has sent its FileComplete.
RoundTripDone == Len(procs["A"]) = 1 /\ procs["A"][1].pc = "done"

\* C9: when the callback has processed, in order and each once, the
\* FileMeta, the chunks and the FileComplete of a file of at least one byte,
\* the receiver's slots, concatenated in index order, are the file's bytes
\* (and so is the file it surfaces); every slot holds its chunk as encoded
\* and decoded.
FileRoundTrip ==
  LET file == procs["A"][1].file
      slots == app["B"].recvChunks
  IN  Len(procs["A"]) = 1
      => /\ \A i \in 1..Len(slots) :
              slots[i] # None
              => slots[i][1] = SubSeq(file.bytes, (i - 1) * CHUNK_SIZE + 1,
                                      Min(i * CHUNK_SIZE, Len(file.bytes)))
         /\ RoundTripDone
              => /\ Len(slots) = Ceil(Len(file.bytes), CHUNK_SIZE)
                 /\ Blob(slots) = file.bytes
                 /\ app["B"].downloadUrl = Some(file.bytes)

\* A round trip of a file of several chunks, the last one short, with
\* bytes above 127, is complete.
RoundTripOfManyChunks ==
  /\ RoundTripDone
  /\ TotalChunks(procs["A"][1].file) >= 2
  /\ Len(procs["A"][1].file.bytes) % CHUNK_SIZE # 0
  /\ \E i \in 1..Len(procs["A"][1].file.bytes) :
       procs["A"][1].file.bytes[i] = 255
  /\ app["B"].downloadUrl # None

\* C11: rttHistory never holds more than 40 samples (it holds as many as
\* acks were processed, up to 40); a matching ack appends its sample, the
\* rounded time since the send, at the end and, when the history was full,
\* drops the first one; no other step touches the history.
RttHistoryBound ==
  /\ [](\A p \in Peers :
          /\ Len(state[p].rttHistory) <= 40
          /\ Len(state[p].rttHistory) = Min(state[p].stats.acks, 40))
  /\ [][\A p \in Peers :
          LET h == state[p].rttHistory
              rtt == (now - state[p].inflightTimestamp + 1) \div 2
          IN  IF /\ last'.op = "handleIncoming" /\ last'.peer = p
                 /\ last'.arg.t = "ack"
                 /\ state[p].awaitingAckSeq = Some(last'.arg.seq)
                THEN state'[p].rttHistory =
                       IF Len(h) < 40 THEN Append(h, rtt)
                       ELSE Append(Tail(h), rtt)
                ELSE state'[p].rttHistory = h]_vars

\* A full history has dropped its oldest sample and ends with a slow one.
OldestSampleEvicted ==
  /\ state["A"].stats.acks > 40
  /\ state["A"].stats.rttMs > 0
  /\ Len(state["A"].rttHistory) = 40
  /\ state["A"].rttHistory[40] = state["A"].stats.rttMs
  /\ \A i \in 1..39 : state["A"].rttHistory[i] = 0

\* C12: an offer, answer or candidate naming a room is written, unchanged,
\* to every open connection other than the sender that has joined that room,
\* and to no other connection.
RelayFanOut ==
  [][\A ws \in Conns :
       (/\ relayLast'.op = "message" /\ relayLast'.ws = ws
        /\ relayLast'.msg.json = "object"
        /\ relayLast'.msg.type
             \in {Some("offer"), Some("answer"), Some("candidate")}
        /\ relayLast'.msg.roomId \in { Some(r) : r \in RoomIds })
       => relayLast'.sends =
            { [to |-> c, msg |-> relayLast'.msg] :
                c \in { d \in Conns \ {ws} :
                          /\ sockets[d].status = "open"
                          /\ relayLast'.msg.roomId[1] \in joins[d] } }]_vars

\* A member's offer reached the other member of its room and neither the
\* sender nor the open connection that joined another room.
ForwardedWithinRoom ==
  /\ relayLast.op = "message"
  /\ relayLast.msg.json = "object"
  /\ relayLast.msg.type = Some("offer")
  /\ relayLast.msg.roomId = Some("r1")
  /\ "r1" \in joins[relayLast.ws]
  /\ Cardinality(relayLast.sends) = 1
  /\ \E d \in Conns \ {relayLast.ws} :
       sockets[d].status = "open" /\ joins[d] = {"r2"}

\* The connections that joined room r and whose close the relay has not
\* handled yet.
MembersOf(r) ==
  { ws \in Conns : sockets[ws].status \in {"open", "closing"} /\ r \in joins[ws] }

\* C13: a room is in the relay's map exactly when it has a member, its Set
\* holds the connections that joined it and have not disconnected, and the
\* map never holds an empty Set.
RoomLifecycle ==
  \A r \in RoomIds :
    /\ rooms[r] # Some({})
    /\ (rooms[r] # None) <=> (MembersOf(r) # {})
    /\ rooms[r] # None => rooms[r][1] = MembersOf(r)

\* C14: once the channel has closed no retransmit timeout is left pending;
\* a timeout that expires then writes nothing and raises no error, and
\* every send returns false.
ChannelCloseTerminal ==
  /\ [](readyState = "closed" => \A p \in Peers : ~RetransmitPending(p))
  /\ [][readyState = "closed"
          => /\ last'.op = "timer" => (~last'.threw /\ last'.out = <<>>)
             /\ last'.op = "send" => ~last'.ret]_vars

\* The reassembly buffer of peer p has an empty slot.
HasEmptySlot(p) ==
  \E i \in 1..Len(app[p].recvChunks) : app[p].recvChunks[i] = None

\* C15: a FileComplete processed while a slot of the reassembly buffer is
\* still empty surfaces no file (the callback has no error to report: what
\* it can do is leave the download as it was).
IncompleteFileRejected ==
  [][\A p \in Peers :
       (/\ last'.op = "handleIncoming" /\ last'.peer = p
        /\ last'.arg.t = "data"
        /\ last'.arg.payload.kind = "file-complete"
        /\ HasEmptySlot(p))
       => app'[p].downloadUrl = app[p].downloadUrl]_vars

\* The call ran handleIncoming of peer p on a text of one of the kinds.
Incoming(call, p, kinds) ==
  /\ call.op = "handleIncoming"
  /\ call.peer = p
  /\ call.arg.t \in kinds

\* C16: handleIncoming given text that does not decode returns normally
\* and changes nothing: no counter moves, no frame is written, the delivery
\* callback is not invoked and no snapshot is emitted.
MalformedDiscarded ==
  [][\A p \in Peers :
       Incoming(last', p, {"not-json"})
       => /\ ~last'.threw
          /\ state'[p] = state[p]
          /\ timers'[p] = timers[p]
          /\ chan' = chan
          /\ app'[p] = app[p]
          /\ delivered'[p] = delivered[p]
          /\ last'.out = <<>>]_vars

\* Undecodable text reached a session that has a message in flight.
MalformedWhileAwaiting ==
  /\ Incoming(last, "A", {"not-json"})
  /\ Awaiting("A")
  /\ state["A"].stats.retransmits > 0

\* C19: handleIncoming given any text that is not a Data or Ack frame (one
\* that decodes to null, to a number or to an object of unknown t included)
\* returns without raising an error, changes nothing and writes nothing.
NoExceptionForNonFrames ==
  [][\A p \in Peers :
       Incoming(last', p, {"not-json", "null", "number", "ping"})
       => /\ ~last'.threw
          /\ state'[p] = state[p]
          /\ chan' = chan
          /\ last'.out = <<>>]_vars

\* C17: a session awaits an ack exactly when a timeout that will retransmit
\* the awaited message is pending, and exactly when inflightPayload is set,
\* to the payload of its latest accepted send.
TimerInflightInvariant ==
  \A p \in Peers :
    /\ Awaiting(p) <=> RetransmitPending(p)
    /\ Awaiting(p) <=> state[p].inflightPayload # None
    /\ Awaiting(p)
         => state[p].inflightPayload
              = Some(accepted[p][Len(accepted[p])].payload)

\* C18: an accepted send writes the first transmission of its frame at
\* once, so first transmissions are on the transport in assignment order;
\* every earlier accepted send has had its matching ack processed by then;
\* and a sender goes from awaiting to idle only by processing the ack of
\* the awaited sequence number.
SendOrdering ==
  /\ [](\A p \in Peers :
          Len(accepted[p]) = state[p].stats.acks
                               + (IF Awaiting(p) THEN 1 ELSE 0))
  /\ [][\A p \in Peers :
          /\ (last'.op = "send" /\ last'.peer = p /\ last'.ret)
               => /\ state[p].stats.acks = Len(accepted[p])
                  /\ Len(accepted'[p]) = Len(accepted[p]) + 1
                  /\ Events(last', "frame")
                       = << Written(DataFrame(state[p].nextSeq, last'.arg)) >>
          /\ (Awaiting(p) /\ ~Awaiting(p)')
               => /\ last'.op = "handleIncoming" /\ last'.peer = p
                  /\ last'.arg.t = "ack"
                  /\ state[p].awaitingAckSeq = Some(last'.arg.seq)]_vars

\* The second send was accepted after the first one was retransmitted and
\* then acknowledged.
NextSendAfterAck ==
  /\ last.op = "send" /\ last.peer = "A" /\ last.ret
  /\ Len(accepted["A"]) = 2
  /\ state["A"].stats.acks = 1
  /\ state["A"].stats.retransmits = 1

\* C20: on a data frame handleIncoming counts the frame and its length,
\* then emits the snapshot of the new counters, then writes the ack towards
\* the sender of the frame, then invokes the delivery callback: the ack is
\* written before the application sees the payload.  The receiver's own
\* nextSeq, awaitingAckSeq, in-flight payload and timer are untouched.
DataHandlingOrder ==
  [][\A p \in Peers :
       Incoming(last', p, {"data"})
       => LET counted ==
                [state[p].stats EXCEPT
                   !.received = @ + 1,
                   !.bytesReceived = @ + FrameLength(last'.arg)]
          IN  /\ state'[p] = [state[p] EXCEPT !.stats = counted]
              /\ timers'[p] = timers[p]
              /\ Len(last'.out) = 3
              /\ last'.out[1].e = "stats"
              /\ last'.out[1].v.stats = counted
              /\ last'.out[2] = [e |-> "frame", v |-> AckFrame(last'.arg.seq)]
              /\ last'.out[3] = [e |-> "deliver", v |-> last'.arg.payload]
              /\ InFlight(chan', Other(p), AckFrame(last'.arg.seq))
                   = InFlight(chan, Other(p), AckFrame(last'.arg.seq)) + 1
              /\ InFlight(chan', p, AckFrame(last'.arg.seq))
                   = InFlight(chan, p, AckFrame(last'.arg.seq))]_vars

\* A peer handled a data frame while a message of its own was in flight
\* and its own retransmit timeout was pending.
DataHandledWhileAwaiting ==
  /\ Incoming(last, "B", {"data"})
  /\ Awaiting("B")
  /\ RetransmitPending("B")
  /\ Len(delivered["B"]) > 0

\* C21: a data frame is written only for the message that is awaiting its
\* ack: once the matching ack of a message was processed no frame of it is
\* written again and stats.retransmits no longer moves for it, and no
\* retransmit timeout of it is left pending.
NoRetransmissionAfterAck ==
  /\ [](\A p \in Peers : \A t \in timers[p] :
          t.kind = "retransmit" => state[p].awaitingAckSeq = Some(t.seq))
  /\ [][\A p \in Peers :
          /\ \A i \in 1..Len(last'.out) :
               (/\ last'.peer = p
                /\ last'.out[i].e = "frame"
                /\ last'.out[i].v.t = "data")
               => /\ state'[p].awaitingAckSeq = Some(last'.out[i].v.seq)
                  /\ state'[p].stats.acks < Len(accepted'[p])
                  /\ last'.out[i].v
                       = DataFrame(accepted'[p][Len(accepted'[p])].seq,
                                   accepted'[p][Len(accepted'[p])].payload)
          /\ state'[p].stats.retransmits # state[p].stats.retransmits
               => /\ Awaiting(p)
                  /\ state'[p].awaitingAckSeq = state[p].awaitingAckSeq
                  /\ state'[p].stats.acks < Len(accepted'[p])]_vars

\* The ack of a message that had been retransmitted was processed, and the
\* session is left with no timeout pending.
AckAfterRetransmission ==
  /\ Incoming(last, "A", {"ack"})
  /\ ~Awaiting("A")
  /\ state["A"].stats.retransmits = 1
  /\ state["A"].stats.acks = 1
  /\ state["A"].timer # None
  /\ timers["A"] = {}

\* The payloads a file of S bytes is sent as with chunks of C bytes: the
\* announcement, the byte ranges [i*C, min((i+1)*C, S)) and the end.
ExpectedPayloads(file) ==
  LET S == Len(file.bytes)
      C == CHUNK_SIZE
      n == (S + C - 1) \div C
  IN  << [kind |-> "file-meta", totalChunks |-> n, index |-> 0,
          bytes |-> <<>>] >>
      \o [i \in 1..n |->
            [kind |-> "file-chunk", totalChunks |-> n, index |-> i - 1,
             bytes |-> SubSeq(file.bytes, (i - 1) * C + 1,
                              IF i * C < S THEN i * C ELSE S)]]
      \o << [kind |-> "file-complete", totalChunks |-> n, index |-> 0,
             bytes |-> <<>>] >>

\* The payload is the expected one.
IsExpected(payload, file, e) ==
  /\ payload.kind = e.kind
  /\ e.kind = "file-meta"
       => /\ payload.totalChunks = e.totalChunks
          /\ payload.size = Len(file.bytes)
          /\ payload.name = file.name
          /\ payload.type = file.type
  /\ e.kind = "file-chunk"
       => /\ payload.index = e.index
          /\ base64ToUint8Array(payload.data) = e.bytes

\* How many payloads a sendFile invocation has had accepted.
AcceptedOf(proc) ==
  CASE proc.pc = "meta" -> 0
    [] proc.pc = "chunk" -> 1 + proc.i
    [] proc.pc = "complete" -> Len(ExpectedPayloads(proc.file)) - 1
    [] OTHER -> Len(ExpectedPayloads(proc.file))

\* C22: what the one sendFile of a peer offers to send is always the next
\* payload of FileMeta, FileChunk 0 .. totalChunks-1, FileComplete that has
\* not been accepted yet, it moves on by one payload when send accepts it
\* and not otherwise, and what the session accepted is that sequence as far
\* as the invocation has come: 1 + ceil(S/C) + 1 payloads when it is done.
FileSenderSequence ==
  /\ [](\A p \in Peers :
          Len(procs[p]) = 1
          => LET proc == procs[p][1]
                 e == ExpectedPayloads(proc.file)
             IN  /\ Len(accepted[p]) = AcceptedOf(proc)
                 /\ Len(accepted[p]) <= Len(e)
                 /\ \A i \in 1..Len(accepted[p]) :
                      IsExpected(accepted[p][i].payload, proc.file, e[i]))
  /\ [][\A p \in Peers :
          (last'.op = "send" /\ last'.peer = p /\ Len(procs[p]) = 1)
          => LET proc == procs[p][1]
                 e == ExpectedPayloads(proc.file)
             IN  /\ AcceptedOf(proc) < Len(e)
                 /\ IsExpected(last'.arg, proc.file, e[AcceptedOf(proc) + 1])
                 /\ procs'[p][1].file = proc.file
                 /\ AcceptedOf(procs'[p][1])
                      = AcceptedOf(proc) + (IF last'.ret THEN 1 ELSE 0)]_vars

\* A file whose last chunk is short was sent to its end and received.
ShortLastChunkSent ==
  /\ Len(procs["A"]) = 1
  /\ procs["A"][1].pc = "done"
  /\ Len(procs["A"][1].file.bytes) = 2 * CHUNK_SIZE + 1
  /\ Len(accepted["A"]) = 5
  /\ app["B"].recvProgress.receivedChunks = 3

\* C23: the delivery callback given the payload it was given last leaves
\* what the application sees (received text, reassembly buffer, progress,
\* surfaced file) as it was after the first time.
IdempotentDelivery ==
  [][\A p \in Peers :
       (/\ Incoming(last', p, {"data"})
        /\ Len(delivered[p]) > 0
        /\ delivered[p][Len(delivered[p])].payload = last'.arg.payload)
       => app'[p] = app[p]]_vars

\* The callback of peer p ran on a payload of the kind.
Given(call, p, kind) ==
  /\ call.op = "onDeliver"
  /\ call.peer = p
  /\ call.arg.kind = kind

\* C24: a FileChunk of index i and bytes b given to the callback while the
\* buffer is allocated and slot i already holds b leaves the buffer, the
\* count of filled slots and everything else as they were; one given while
\* slot i exists puts b in slot i and touches no other slot.
ChunkWriteIdempotent ==
  [][\A p \in Peers : \A b \in ChunkSamples :
       LET buffer == app[p].recvChunks
           i == last'.arg.index
       IN  (/\ Given(last', p, "file-chunk")
            /\ last'.arg.data = arrayBufferToBase64(b)
            /\ i < Len(buffer))
           => /\ Len(app'[p].recvChunks) = Len(buffer)
              /\ app'[p].recvChunks[i + 1] = Some(b)
              /\ \A j \in 1..Len(buffer) :
                   j # i + 1 => app'[p].recvChunks[j] = buffer[j]
              /\ buffer[i + 1] = Some(b) => app'[p] = app[p]]_vars

\* A chunk was written a second time, after another chunk, into a buffer
\* of two slots.
ChunkWrittenTwice ==
  /\ Given(last, "B", "file-chunk")
  /\ Len(delivered["B"]) = 4
  /\ delivered["B"][2].payload = last.arg
  /\ delivered["B"][3].payload.kind = "file-chunk"
  /\ delivered["B"][3].payload.index # last.arg.index
  /\ Len(app["B"].recvChunks) = 2
  /\ app["B"].recvProgress.receivedChunks = 2

\* The place of the latest FileMeta in what the callback of p was given.
LastMeta(p) ==
  LET metas == { k \in 1..Len(delivered[p]) :
                   delivered[p][k].payload.kind = "file-meta" }
  IN  IF metas = {} THEN 0 ELSE CHOOSE k \in metas : \A m \in metas : m <= k

\* C25: a FileMeta of totalChunks n, in whatever state the receiver is,
\* leaves a buffer of n empty slots and a progress of 0 of n, and touches
\* neither the received text nor the file already surfaced; so every
\* filled slot, at any time, holds the bytes of a chunk given after the
\* latest FileMeta, and no chunk of an earlier transfer is in a file
\* surfaced later.
FileMetaResets ==
  /\ [](\A p \in Peers : \A j \in 1..Len(app[p].recvChunks) :
          app[p].recvChunks[j] # None
          => \E k \in (LastMeta(p) + 1)..Len(delivered[p]) :
               /\ delivered[p][k].payload.kind = "file-chunk"
               /\ delivered[p][k].payload.index = j - 1
               /\ \E b \in ChunkSamples :
                    /\ delivered[p][k].payload.data = arrayBufferToBase64(b)
                    /\ app[p].recvChunks[j] = Some(b))
  /\ [][\A p \in Peers :
          Given(last', p, "file-meta")
          => /\ Len(app'[p].recvChunks) = last'.arg.totalChunks
             /\ \A j \in 1..Len(app'[p].recvChunks) :
                  app'[p].recvChunks[j] = None
             /\ app'[p].recvProgress
                  = [receivedChunks |-> 0,
                     totalChunks |-> last'.arg.totalChunks]
             /\ app'[p].receivedText = app[p].receivedText
             /\ app'[p].downloadUrl = app[p].downloadUrl]_vars

\* A FileMeta discarded a stored chunk, and the file surfaced afterwards
\* holds nothing of it.
StoredChunkDiscarded ==
  /\ Given(last, "B", "file-complete")
  /\ Len(delivered["B"]) = 4
  /\ delivered["B"][1].payload.kind = "file-meta"
  /\ delivered["B"][2].payload.kind = "file-chunk"
  /\ delivered["B"][2].payload.index = 0
  /\ delivered["B"][3].payload.kind = "file-meta"
  /\ delivered["B"][3].payload.totalChunks = 1
  /\ app["B"].downloadUrl = Some(Undefined)

\* The slots, all filled, joined in index order.
RECURSIVE SlotsJoined(_)
SlotsJoined(slots) ==
  IF Len(slots) = 0 THEN <<>> ELSE slots[1][1] \o SlotsJoined(Tail(slots))

\* C26: a FileComplete given when a FileMeta of totalChunks n >= 0 was
\* processed and all n slots are filled surfaces the file made of slots
\* 0..n-1 joined in index order.
FileCompleteSurfaces ==
  [][\A p \in Peers :
       LET buffer == app[p].recvChunks
       IN  (/\ Given(last', p, "file-complete")
            /\ LastMeta(p) > 0
            /\ Len(buffer) = delivered[p][LastMeta(p)].payload.totalChunks
            /\ \A j \in 1..Len(buffer) : buffer[j] # None)
           => app'[p].downloadUrl = Some(SlotsJoined(buffer))]_vars

\* C27: since the latest FileMeta, of totalChunks n, the buffer has exactly
\* n slots whatever chunks were given since, and a file surfaced since then
\* holds the bytes of chunks of index 0..n-1 only.
BufferSizeInvariant ==
  \A p \in Peers :
    LastMeta(p) > 0
    => Len(app[p].recvChunks) = delivered[p][LastMeta(p)].payload.totalChunks

\* C28: what a session accepts after the FileMeta of a transfer and before
\* its FileComplete is a chunk or the FileComplete of that transfer: no
\* text and no FileMeta of another transfer comes between them.
TransfersDoNotInterleave ==
  \A p \in Peers : \A i, j \in 1..Len(accepted[p]) :
    (/\ i < j
     /\ accepted[p][i].payload.kind = "file-meta"
     /\ \A m \in (i + 1)..(j - 1) :
          accepted[p][m].payload.kind # "file-complete")
    => accepted[p][j].payload.kind \in {"file-chunk", "file-complete"}

\* C29: a connection whose close the relay has handled is in the Set of no
\* room, whatever joins it sent before: every member of every room is a
\* connection that has not closed yet.
MembershipRemovedOnClose ==
  \A r \in RoomIds : \A ws \in Conns :
    (rooms[r] # None /\ ws \in rooms[r][1]) => sockets[ws].status # "closed"

\* C30: the relay writes an offer, answer or candidate to a connection only
\* when the sender of the message has itself joined the room it names.
RoomIsolation ==
  [][\A ws \in Conns :
       (/\ relayLast'.op = "message" /\ relayLast'.ws = ws
        /\ \E written \in relayLast'.sends : written.to # ws)
       => relayLast'.msg.roomId[1] \in joins[ws]]_vars

\* The data frames a step of peer p wrote to the transport.
DataFramesWritten(call, p) ==
  IF call.peer = p /\ call.op \in {"send", "timer"}
    THEN Len(SelectSeq(call.out,
                       LAMBDA ev : ev.e = "frame" /\ ev.v.t = "data"))
    ELSE 0

\* C31: stats.sent is the number of accepted sends plus stats.retransmits,
\* and moves by one with every data frame written; stats.acks is at most
\* the number of accepted sends and moves exactly when an RTT sample is
\* appended; the accepted sends are one more than stats.acks while an ack
\* is awaited and as many when none is.
CounterConsistency ==
  /\ [](\A p \in Peers :
          /\ state[p].stats.sent
               = Len(accepted[p]) + state[p].stats.retransmits
          /\ state[p].stats.acks <= Len(accepted[p])
          /\ Len(accepted[p]) - state[p].stats.acks
               = (IF state[p].awaitingAckSeq # None THEN 1 ELSE 0))
  /\ [][\A p \in Peers :
          /\ state'[p].stats.sent
               = state[p].stats.sent + DataFramesWritten(last', p)
          /\ state'[p].stats.acks \in
               {state[p].stats.acks, state[p].stats.acks + 1}
          /\ state'[p].stats.acks = state[p].stats.acks
               => state'[p].rttHistory = state[p].rttHistory
          /\ state'[p].stats.acks = state[p].stats.acks + 1
               => /\ Len(state'[p].rttHistory) > 0
                  /\ state'[p].rttHistory[Len(state'[p].rttHistory)]
                       = state'[p].stats.rttMs
                  /\ \/ Len(state'[p].rttHistory)
                          = Len(state[p].rttHistory) + 1
                     \/ Len(state[p].rttHistory) = 40]_vars

\* A session that has retransmitted and been acknowledged is awaiting the
\* ack of its next message.
CountersAfterRetransmission ==
  /\ state["A"].awaitingAckSeq # None
  /\ Len(accepted["A"]) = 2
  /\ state["A"].stats.acks = 1
  /\ state["A"].stats.retransmits = 1
  /\ state["A"].stats.sent = 3
  /\ Len(state["A"].rttHistory) = 1

====
